---- MODULE Spec2Model ----
(***************************************************************************)
(* Model of the safe host loader of the micro-frontend repository          *)
(* (hostLoader: safeImportHostModule, createSafeStoreLoader,               *)
(* createSafeUtilsLoader).                                                 *)
(*                                                                         *)
(* JavaScript runs the loader on one event loop.  Every action below is    *)
(* one run-to-completion step: a synchronous call, or the continuation     *)
(* that runs when an awaited import() or setTimeout() settles.  The        *)
(* import() of a remote rejects with an Error object or fulfills with a    *)
(* module namespace object; a module that has once been loaded stays in    *)
(* the module cache and every later import() of it fulfills with the same  *)
(* namespace object.                                                       *)
(***************************************************************************)
EXTENDS Integers, Sequences, FiniteSets, TLC

VARIABLES
    store,          \* createSafeStoreLoader: let store
    storePromise,   \* createSafeStoreLoader: let storePromise (0 = null)
    fallbackStore,  \* createSafeStoreLoader: let fallbackStore
    storeSeqs,      \* the async bodies started by loadStore, in start order
    storeCalls,     \* the loadStore() calls made so far, in call order
    storeImports,   \* number of import('host/store') invocations so far
    storeLoaded,    \* the module cache entry of 'host/store'
    utils,          \* createSafeUtilsLoader: let utils
    utilsPromise,   \* createSafeUtilsLoader: let utilsPromise (0 = null)
    utilsSeqs,      \* the async bodies started by loadUtils, in start order
    utilsCalls,     \* the loadUtils() calls made so far, in call order
    utilsImports,   \* number of import('host/utils') invocations so far
    utilsLoaded,    \* the module cache entry of 'host/utils'
    ret,            \* what the last synchronous accessor call returned
    fbState,        \* createStore: let state (of the fallback store)
    fbListeners,    \* createStore: const listeners
    fbNotified,     \* how often each listener has been invoked
    fbTrace,        \* the operations made on the fallback store, in order
    fbLast,         \* what the last dispatch() did and returned
    cart,           \* the cart slice of the host store (cartReducer's state)
    cartLast,       \* the last action the host cart reducer was given
    localStorage,   \* window.localStorage: key -> stored text
    stLast,         \* the last storage helper call and what it returned
    appPc,          \* App: where the effect's loadStore() stands
    appCall,        \* App: the loadStore() call the effect awaits
    appMounted,     \* App effect: let mounted
    appStore,       \* App: useState store
    appIsLoading,   \* App: useState isLoading
    appError,       \* App: useState error
    hsPc,           \* useSafeStore: where the effect's loadStore() stands
    hsCall,         \* useSafeStore: the loadStore() call the effect awaits
    hsMounted,      \* useSafeStore effect: let mounted
    hsStore,        \* useSafeStore: useState store
    hsIsLoading,    \* useSafeStore: useState isLoading
    hsError,        \* useSafeStore: useState error
    huPc,           \* useSafeUtils: where the effect's loadUtils() stands
    huCall,         \* useSafeUtils: the loadUtils() call the effect awaits
    huMounted,      \* useSafeUtils effect: let mounted
    huUtils,        \* useSafeUtils: useState utils
    huIsLoading,    \* useSafeUtils: useState isLoading
    events,         \* EventEmitter: this.events
    emFired,        \* the callbacks that have made their one emit
    emInvoked,      \* per once() call: how often its callback was invoked
    emOps,          \* number of calls made on the eventEmitter
    emLast          \* the last call on the eventEmitter and what it invoked

fbVars == <<fbState, fbListeners, fbNotified, fbTrace, fbLast>>

cartVars == <<cart, cartLast>>

stVars == <<localStorage, stLast>>

appVars == <<appPc, appCall, appMounted, appStore, appIsLoading, appError>>

hookVars == <<hsPc, hsCall, hsMounted, hsStore, hsIsLoading, hsError,
              huPc, huCall, huMounted, huUtils, huIsLoading>>

emVars == <<events, emFired, emInvoked, emOps, emLast>>

auxVars == <<fbVars, cartVars, stVars, appVars, hookVars, emVars>>

vars == <<store, storePromise, fallbackStore, storeSeqs, storeCalls,
          storeImports, storeLoaded, utils, utilsPromise, utilsSeqs,
          utilsCalls, utilsImports, utilsLoaded, ret, auxVars>>

storeVars == <<store, storePromise, fallbackStore, storeSeqs, storeCalls,
               storeImports, storeLoaded>>

utilsVars == <<utils, utilsPromise, utilsSeqs, utilsCalls, utilsImports,
               utilsLoaded>>

(***************************************************************************)
(* Bounds of the model.                                                    *)
(***************************************************************************)
MaxStoreCalls == 3
MaxUtilsCalls == 2
MaxFbOps == 4
MaxQty == 3
MaxSetLen == 2
MaxEmOps == 4

(***************************************************************************)
(* Values.                                                                 *)
(***************************************************************************)
Null == "null"

NoPromise == 0

\* The retry ceiling and the delay loadStore and loadUtils pass.
Retries == 3

DelayMs == 1000

\* The namespace objects import('host/store') can fulfill with.
StoreModules == {"storeModuleA", "storeModuleB", "storeModuleNoDefault"}

\* The namespace objects import('host/utils') can fulfill with.
UtilsModules == {"utilsModuleDefault", "utilsModuleNamed", "utilsModuleEmpty"}

\* module.default
ModuleDefault(m) ==
    CASE m = "storeModuleA" -> "hostStoreA"
      [] m = "storeModuleB" -> "hostStoreB"
      [] m = "utilsModuleDefault" -> "hostUtils"
      [] OTHER -> Null

\* The object createStore(fallbackReducer) returns.
FallbackStoreObject == "fallbackStore"

\* The const fallbackUtils of createSafeUtilsLoader.
fallbackUtils == "fallbackUtils"

(***************************************************************************)
(* safeImportHostModule                                                    *)
(***************************************************************************)
\* try branch: the import fulfilled with module m.
ImportSuccess(m) == [success |-> TRUE, module |-> m]

\* catch branch, last iteration: the failure result.
ImportFailure == [success |-> FALSE, module |-> Null]

\* Mutant: the loop gives up one attempt early.
AfterCatchEarly(i, retries) == IF i < retries - 2 THEN "wait" ELSE "fail"

\* catch branch: wait and go round the loop again, or give up.
AfterCatch(i, retries) == IF i < retries - 1 THEN "wait" ELSE "fail"

\* A freshly started async body: safeImportHostModule is at its first
\* import(), which the caller's global counter `imports` has just counted.
NewSeq(imports) ==
    [pc |-> "import", i |-> 0, attempts |-> 1, delays |-> 0, waited |-> 0,
     outcomes |-> <<>>, status |-> "pending", value |-> Null,
     usingFallback |-> FALSE, importsAtStart |-> imports, importsAtEnd |-> 0]

\* Mutant: the catch branch does not await the delay and goes round the loop
\* at once.
SeqWaitNoAwait(q) ==
    [q EXCEPT !.pc = "import", !.i = @ + 1, !.attempts = @ + 1,
              !.outcomes = Append(@, "throw")]

\* Mutant: the promise awaited in the catch branch has no timer that
\* resolves it.
SeqWaitNoTimer(q) ==
    [q EXCEPT !.pc = "stuck", !.delays = @ + 1,
              !.outcomes = Append(@, "throw")]

\* catch branch with i < retries - 1: setTimeout(resolve, delay) is armed.
SeqWait(q) ==
    [q EXCEPT !.pc = "delay", !.delays = @ + 1,
              !.outcomes = Append(@, "throw")]

\* The timer fired: i++ and the next import() is issued.
SeqRetry(q, delay) ==
    [q EXCEPT !.pc = "import", !.i = @ + 1, !.attempts = @ + 1,
              !.waited = @ + delay]

\* The async body finished with the given promise state and value.
SeqDone(q, outcome, out, imports) ==
    [q EXCEPT !.pc = "done", !.outcomes = Append(@, outcome),
              !.status = out.status, !.value = out.value,
              !.usingFallback = out.usingFallback, !.importsAtEnd = imports]

\* The promises of the calls that returned promise p settle with it.
SettleCalls(calls, p, status, value) ==
    [k \in DOMAIN calls |->
        IF calls[k].promise = p /\ calls[k].status = "pending"
        THEN [calls[k] EXCEPT !.status = status, !.value = value]
        ELSE calls[k]]

\* The async bodies that have not finished.
Running(seqs) == {s \in DOMAIN seqs : seqs[s].pc # "done"}

\* The calls whose promise has settled.
Settled(calls) == {k \in DOMAIN calls : calls[k].status # "pending"}

\* A call record: how the call was served, the promise it returned, and what
\* was going on when it was made.
NewCall(how, p, status, value, seqs, calls) ==
    [how |-> how, promise |-> p, status |-> status, value |-> value,
     inflight |-> Running(seqs), prior |-> Settled(calls)]

(***************************************************************************)
(* createSafeStoreLoader                                                   *)
(***************************************************************************)
\* createFallbackStore: the memoized fallback store, built on first use.
createFallbackStore(fb) == IF fb # Null THEN fb ELSE FallbackStoreObject

\* Mutant: loadStore without the `if (storePromise)` early return.
LoadStoreBranchNoJoin(st, sp) == IF st # Null THEN "memo" ELSE "start"

\* loadStore, the two early returns.
LoadStoreBranch(st, sp) ==
    IF st # Null THEN "memo"
    ELSE IF sp # NoPromise THEN "join"
    ELSE "start"

\* Mutant: a failed acquisition is rethrown instead of answered with the
\* fallback store.
StoreOutcomeRethrow(result, st, fb) ==
    IF result.success /\ result.module # Null
                      /\ ModuleDefault(result.module) # Null
    THEN [store |-> ModuleDefault(result.module), fallbackStore |-> fb,
          status |-> "fulfilled", value |-> ModuleDefault(result.module),
          usingFallback |-> FALSE]
    ELSE [store |-> st, fallbackStore |-> fb,
          status |-> "rejected", value |-> Null, usingFallback |-> FALSE]

\* Mutant: the `result.module.default` test is missing.
StoreOutcomeNoShapeCheck(result, st, fb) ==
    IF result.success /\ result.module # Null
    THEN [store |-> ModuleDefault(result.module), fallbackStore |-> fb,
          status |-> "fulfilled", value |-> ModuleDefault(result.module),
          usingFallback |-> FALSE]
    ELSE [store |-> st, fallbackStore |-> createFallbackStore(fb),
          status |-> "fulfilled", value |-> createFallbackStore(fb),
          usingFallback |-> TRUE]

\* Mutant: the fallback store is built before the result is looked at.
StoreOutcomeEagerFallback(result, st, fb) ==
    IF result.success /\ result.module # Null
                      /\ ModuleDefault(result.module) # Null
    THEN [store |-> ModuleDefault(result.module),
          fallbackStore |-> createFallbackStore(fb),
          status |-> "fulfilled", value |-> ModuleDefault(result.module),
          usingFallback |-> FALSE]
    ELSE [store |-> st, fallbackStore |-> createFallbackStore(fb),
          status |-> "fulfilled", value |-> createFallbackStore(fb),
          usingFallback |-> TRUE]

\* loadStore, the body after `await safeImportHostModule(...)`: the new
\* store, the new fallbackStore and the value the promise fulfills with.
\* safeImportHostModule catches every rejected import itself and always
\* returns a result record, so the catch clause of loadStore is not entered;
\* it would return createFallbackStore() like the else branch.
StoreOutcome(result, st, fb) ==
    IF result.success /\ result.module # Null
                      /\ ModuleDefault(result.module) # Null
    THEN [store |-> ModuleDefault(result.module), fallbackStore |-> fb,
          status |-> "fulfilled", value |-> ModuleDefault(result.module),
          usingFallback |-> FALSE]
    ELSE [store |-> st, fallbackStore |-> createFallbackStore(fb),
          status |-> "fulfilled", value |-> createFallbackStore(fb),
          usingFallback |-> TRUE]

getStore(st) == st

isStoreLoaded(st) == st # Null

\* A loadStore() call, as it acts on the loader.
LoadStoreCall ==
    /\ Len(storeCalls) < MaxStoreCalls
    /\ LET branch == LoadStoreBranch(store, storePromise)
           p == Len(storeSeqs) + 1
       IN  CASE branch = "memo" ->
                  /\ storeCalls' = Append(storeCalls,
                        NewCall("memo", NoPromise, "fulfilled", store,
                                storeSeqs, storeCalls))
                  /\ UNCHANGED <<storePromise, storeSeqs, storeImports>>
             [] branch = "join" ->
                  /\ storeCalls' = Append(storeCalls,
                        NewCall("join", storePromise, "pending", Null,
                                storeSeqs, storeCalls))
                  /\ UNCHANGED <<storePromise, storeSeqs, storeImports>>
             [] branch = "start" ->
                  /\ storeSeqs' = Append(storeSeqs, NewSeq(storeImports))
                  /\ storeImports' = storeImports + 1
                  /\ storePromise' = p
                  /\ storeCalls' = Append(storeCalls,
                        NewCall("start", p, "pending", Null,
                                storeSeqs, storeCalls))
    /\ UNCHANGED <<store, fallbackStore, storeLoaded>>

\* A loadStore() call by some consumer.
LoadStore ==
    /\ LoadStoreCall
    /\ UNCHANGED <<utilsVars, ret, auxVars>>

\* Mutant: the async body of loadStore without its finally clause.
StoreFinishNoFinally(s, outcome, result) ==
    LET out == StoreOutcome(result, store, fallbackStore)
    IN  /\ store' = out.store
        /\ fallbackStore' = out.fallbackStore
        /\ storePromise' = storePromise
        /\ storeSeqs' = [storeSeqs EXCEPT
              ![s] = SeqDone(@, outcome, out, storeImports)]
        /\ storeCalls' = SettleCalls(storeCalls, s, out.status, out.value)

\* safeImportHostModule returned `result` to the async body s of loadStore:
\* the rest of the body, its finally clause included.
StoreFinish(s, outcome, result) ==
    LET out == StoreOutcome(result, store, fallbackStore)
    IN  /\ store' = out.store
        /\ fallbackStore' = out.fallbackStore
        /\ storePromise' = NoPromise
        /\ storeSeqs' = [storeSeqs EXCEPT
              ![s] = SeqDone(@, outcome, out, storeImports)]
        /\ storeCalls' = SettleCalls(storeCalls, s, out.status, out.value)

\* The pending import('host/store') of body s fulfills with a module.
StoreImportResolves(s) ==
    /\ storeSeqs[s].pc = "import"
    /\ \E m \in (IF storeLoaded # Null THEN {storeLoaded} ELSE StoreModules) :
          /\ storeLoaded' = m
          /\ StoreFinish(s, m, ImportSuccess(m))
    /\ UNCHANGED <<storeImports, utilsVars, ret, auxVars>>

\* The pending import('host/store') of body s rejects.
StoreImportThrows(s) ==
    /\ storeSeqs[s].pc = "import"
    /\ storeLoaded = Null
    /\ IF AfterCatch(storeSeqs[s].i, Retries) = "wait"
       THEN /\ storeSeqs' = [storeSeqs EXCEPT ![s] = SeqWait(@)]
            /\ UNCHANGED <<store, storePromise, fallbackStore, storeCalls>>
       ELSE StoreFinish(s, "throw", ImportFailure)
    /\ UNCHANGED <<storeImports, storeLoaded, utilsVars, ret, auxVars>>

\* The retry timer of body s fires.
StoreDelayElapsed(s) ==
    /\ storeSeqs[s].pc = "delay"
    /\ storeSeqs' = [storeSeqs EXCEPT ![s] = SeqRetry(@, DelayMs)]
    /\ storeImports' = storeImports + 1
    /\ UNCHANGED <<store, storePromise, fallbackStore, storeCalls,
                   storeLoaded, utilsVars, ret, auxVars>>

\* Mutant: getStore() builds the fallback store when there is no store.
GetStoreBuildsFallback ==
    /\ ret' = [op |-> "getStore", value |-> getStore(store), flag |-> FALSE]
    /\ fallbackStore' = createFallbackStore(fallbackStore)
    /\ UNCHANGED <<store, storePromise, storeSeqs, storeCalls, storeImports,
                   storeLoaded, utilsVars, auxVars>>

\* storeLoader.getStore()
GetStore ==
    /\ ret' = [op |-> "getStore", value |-> getStore(store), flag |-> FALSE]
    /\ UNCHANGED <<storeVars, utilsVars, auxVars>>

\* storeLoader.isStoreLoaded()
IsStoreLoaded ==
    /\ ret' = [op |-> "isStoreLoaded", value |-> Null,
               flag |-> isStoreLoaded(store)]
    /\ UNCHANGED <<storeVars, utilsVars, auxVars>>

(***************************************************************************)
(* createSafeUtilsLoader                                                   *)
(***************************************************************************)
\* loadUtils, the two early returns.
LoadUtilsBranch(ut, up) ==
    IF ut # Null THEN "memo"
    ELSE IF up # NoPromise THEN "join"
    ELSE "start"

\* Mutant: a failed acquisition is rethrown instead of answered with the
\* fallback bundle.
UtilsOutcomeRethrow(result, ut) ==
    IF result.success /\ result.module # Null
    THEN LET u == IF ModuleDefault(result.module) # Null
                  THEN ModuleDefault(result.module)
                  ELSE result.module
         IN  [utils |-> u, status |-> "fulfilled", value |-> u,
              usingFallback |-> FALSE]
    ELSE [utils |-> ut, status |-> "rejected", value |-> Null,
          usingFallback |-> FALSE]

\* Mutant: a module that is an empty mapping is turned down.
UtilsOutcomeNonEmpty(result, ut) ==
    IF result.success /\ result.module # Null
                      /\ result.module # "utilsModuleEmpty"
    THEN LET u == IF ModuleDefault(result.module) # Null
                  THEN ModuleDefault(result.module)
                  ELSE result.module
         IN  [utils |-> u, status |-> "fulfilled", value |-> u,
              usingFallback |-> FALSE]
    ELSE [utils |-> ut, status |-> "fulfilled", value |-> fallbackUtils,
          usingFallback |-> TRUE]

\* loadUtils, the body after `await safeImportHostModule(...)`: the new utils
\* and the value the promise fulfills with.
UtilsOutcome(result, ut) ==
    IF result.success /\ result.module # Null
    THEN LET u == IF ModuleDefault(result.module) # Null
                  THEN ModuleDefault(result.module)
                  ELSE result.module
         IN  [utils |-> u, status |-> "fulfilled", value |-> u,
              usingFallback |-> FALSE]
    ELSE [utils |-> ut, status |-> "fulfilled", value |-> fallbackUtils,
          usingFallback |-> TRUE]

getUtils(ut) == ut

isUtilsLoaded(ut) == ut # Null

\* A loadUtils() call.
LoadUtilsCall ==
    /\ Len(utilsCalls) < MaxUtilsCalls
    /\ LET branch == LoadUtilsBranch(utils, utilsPromise)
           p == Len(utilsSeqs) + 1
       IN  CASE branch = "memo" ->
                  /\ utilsCalls' = Append(utilsCalls,
                        NewCall("memo", NoPromise, "fulfilled", utils,
                                utilsSeqs, utilsCalls))
                  /\ UNCHANGED <<utilsPromise, utilsSeqs, utilsImports>>
             [] branch = "join" ->
                  /\ utilsCalls' = Append(utilsCalls,
                        NewCall("join", utilsPromise, "pending", Null,
                                utilsSeqs, utilsCalls))
                  /\ UNCHANGED <<utilsPromise, utilsSeqs, utilsImports>>
             [] branch = "start" ->
                  /\ utilsSeqs' = Append(utilsSeqs, NewSeq(utilsImports))
                  /\ utilsImports' = utilsImports + 1
                  /\ utilsPromise' = p
                  /\ utilsCalls' = Append(utilsCalls,
                        NewCall("start", p, "pending", Null,
                                utilsSeqs, utilsCalls))
    /\ UNCHANGED <<utils, utilsLoaded>>

\* A loadUtils() call by some consumer.
LoadUtils ==
    /\ LoadUtilsCall
    /\ UNCHANGED <<storeVars, ret, auxVars>>

\* safeImportHostModule returned `result` to the async body s of loadUtils:
\* the rest of the body, its finally clause included.
UtilsFinish(s, outcome, result) ==
    LET out == UtilsOutcome(result, utils)
    IN  /\ utils' = out.utils
        /\ utilsPromise' = NoPromise
        /\ utilsSeqs' = [utilsSeqs EXCEPT
              ![s] = SeqDone(@, outcome, out, utilsImports)]
        /\ utilsCalls' = SettleCalls(utilsCalls, s, out.status, out.value)

\* The pending import('host/utils') of body s fulfills with a module.
UtilsImportResolves(s) ==
    /\ utilsSeqs[s].pc = "import"
    /\ \E m \in (IF utilsLoaded # Null THEN {utilsLoaded} ELSE UtilsModules) :
          /\ utilsLoaded' = m
          /\ UtilsFinish(s, m, ImportSuccess(m))
    /\ UNCHANGED <<utilsImports, storeVars, ret, auxVars>>

\* The pending import('host/utils') of body s rejects.
UtilsImportThrows(s) ==
    /\ utilsSeqs[s].pc = "import"
    /\ utilsLoaded = Null
    /\ IF AfterCatch(utilsSeqs[s].i, Retries) = "wait"
       THEN /\ utilsSeqs' = [utilsSeqs EXCEPT ![s] = SeqWait(@)]
            /\ UNCHANGED <<utils, utilsPromise, utilsCalls>>
       ELSE UtilsFinish(s, "throw", ImportFailure)
    /\ UNCHANGED <<utilsImports, utilsLoaded, storeVars, ret, auxVars>>

\* The retry timer of body s fires.
UtilsDelayElapsed(s) ==
    /\ utilsSeqs[s].pc = "delay"
    /\ utilsSeqs' = [utilsSeqs EXCEPT ![s] = SeqRetry(@, DelayMs)]
    /\ utilsImports' = utilsImports + 1
    /\ UNCHANGED <<utils, utilsPromise, utilsCalls, utilsLoaded,
                   storeVars, ret, auxVars>>

\* utilsLoader.getUtils()
GetUtils ==
    /\ ret' = [op |-> "getUtils", value |-> getUtils(utils), flag |-> FALSE]
    /\ UNCHANGED <<storeVars, utilsVars, auxVars>>

\* utilsLoader.isUtilsLoaded()
IsUtilsLoaded ==
    /\ ret' = [op |-> "isUtilsLoaded", value |-> Null,
               flag |-> isUtilsLoaded(utils)]
    /\ UNCHANGED <<storeVars, utilsVars, auxVars>>

(***************************************************************************)
(* The fallback store: createStore and fallbackReducer                     *)
(***************************************************************************)
\* The products the consumers put into action payloads.
ProductX == [id |-> 1, name |-> "X", price |-> 10]

ProductY == [id |-> 2, name |-> "Y", price |-> 20]

FbProducts == {ProductX, ProductY}

\* The actions dispatched to the fallback store.
FbActions ==
    {[type |-> "ADD_TO_CART", payload |-> p] : p \in FbProducts}
        \cup {[type |-> "REMOVE_FROM_CART", payload |-> ProductX]}

\* The listeners the consumers subscribe, named after what their callback
\* does when it is invoked.
Listeners == {"plain", "unsubSelf", "unsubPlain", "subPlain", "throws"}

\* { ...product, quantity: n }
ItemOf(product, n) ==
    [id |-> product.id, name |-> product.name, price |-> product.price,
     quantity |-> n]

\* items.reduce((sum, item) => sum + item.quantity, 0)
RECURSIVE SumQuantity(_)
SumQuantity(items) ==
    IF items = <<>> THEN 0
    ELSE SumQuantity(SubSeq(items, 1, Len(items) - 1))
            + items[Len(items)].quantity

\* items.reduce((sum, item) => sum + item.price * item.quantity, 0)
RECURSIVE SumPrice(_)
SumPrice(items) ==
    IF items = <<>> THEN 0
    ELSE SumPrice(SubSeq(items, 1, Len(items) - 1))
            + items[Len(items)].price * items[Len(items)].quantity

\* A cart slice with no items.
EmptyCart == [items |-> <<>>, total |-> 0, itemCount |-> 0]

\* createStore(fallbackReducer): initialState defaults to {}, an object with
\* no slice at all.  (`slices` lists the properties the state object has;
\* `cart` is read only when "cart" is one of them.)
FallbackInitialState == [slices |-> {}, cart |-> EmptyCart]

\* The default value of the reducer's state parameter, used only when the
\* reducer is called with state === undefined.
FallbackReducerDefault == [slices |-> {"cart", "user"}, cart |-> EmptyCart]

\* state.cart.items.find(item => item.id === id)
HasItem(items, id) == \E i \in DOMAIN items : items[i].id = id

\* fallbackReducer(state, action): the new state, or the TypeError that
\* reading state.cart.items raises when the state has no cart slice.
fallbackReducer(state, action) ==
    IF action.type = "ADD_TO_CART"
    THEN IF "cart" \notin state.slices
         THEN [threw |-> TRUE, state |-> state]
         ELSE LET items == state.cart.items
                  newItems ==
                      IF HasItem(items, action.payload.id)
                      THEN [i \in DOMAIN items |->
                              IF items[i].id = action.payload.id
                              THEN [items[i] EXCEPT !.quantity = @ + 1]
                              ELSE items[i]]
                      ELSE Append(items, ItemOf(action.payload, 1))
              IN  [threw |-> FALSE,
                   state |-> [state EXCEPT !.cart =
                                [items |-> newItems,
                                 total |-> SumPrice(newItems),
                                 itemCount |-> SumQuantity(newItems)]]]
    ELSE [threw |-> FALSE, state |-> state]

\* listeners.indexOf(l), 0 when l is not in the array.
IndexOf(ls, l) ==
    IF \E i \in DOMAIN ls : ls[i] = l
    THEN CHOOSE i \in DOMAIN ls :
            ls[i] = l /\ \A j \in 1..(i - 1) : ls[j] # l
    ELSE 0

\* The function subscribe(l) returns:
\* index = listeners.indexOf(l); if (index > -1) listeners.splice(index, 1)
unsubscribe(ls, l) ==
    LET index == IndexOf(ls, l)
    IN  IF index > 0
        THEN SubSeq(ls, 1, index - 1) \o SubSeq(ls, index + 1, Len(ls))
        ELSE ls

\* What the callback of listener l does to the listeners array.
ListenerEffect(l, ls) ==
    CASE l = "unsubSelf" -> unsubscribe(ls, "unsubSelf")
      [] l = "unsubPlain" -> unsubscribe(ls, "plain")
      [] l = "subPlain" -> Append(ls, "plain")
      [] OTHER -> ls

\* listeners.forEach(listener => listener()): forEach visits the indices
\* below the length the array had when it started, skips an index the array
\* no longer has, and stops when a callback throws.
RECURSIVE forEachListener(_, _, _, _, _)
forEachListener(k, len, ls, notified, log) ==
    IF k > len
    THEN [listeners |-> ls, notified |-> notified, log |-> log,
          threw |-> FALSE]
    ELSE IF k > Len(ls)
    THEN forEachListener(k + 1, len, ls, notified, log)
    ELSE LET l == ls[k]
             n2 == [notified EXCEPT ![l] = @ + 1]
             log2 == Append(log, l)
         IN  IF l = "throws"
             THEN [listeners |-> ls, notified |-> n2, log |-> log2,
                   threw |-> TRUE]
             ELSE forEachListener(k + 1, len, ListenerEffect(l, ls), n2, log2)

\* Mutant: dispatch without the try / catch around the reducer call.
fbDispatchNoCatch(state, ls, notified, action) ==
    LET r == fallbackReducer(state, action)
    IN  IF r.threw
        THEN [state |-> state, listeners |-> ls, notified |-> notified,
              log |-> <<>>, caught |-> "none", returned |-> action,
              threw |-> TRUE]
        ELSE LET n == forEachListener(1, Len(ls), ls, notified, <<>>)
             IN  [state |-> r.state, listeners |-> n.listeners,
                  notified |-> n.notified, log |-> n.log,
                  caught |-> IF n.threw THEN "listener" ELSE "none",
                  returned |-> action, threw |-> FALSE]

\* dispatch(action): the try block and its catch.
fbDispatch(state, ls, notified, action) ==
    LET r == fallbackReducer(state, action)
    IN  IF r.threw
        THEN [state |-> state, listeners |-> ls, notified |-> notified,
              log |-> <<>>, caught |-> "reducer", returned |-> action,
              threw |-> FALSE]
        ELSE LET n == forEachListener(1, Len(ls), ls, notified, <<>>)
             IN  [state |-> r.state, listeners |-> n.listeners,
                  notified |-> n.notified, log |-> n.log,
                  caught |-> IF n.threw THEN "listener" ELSE "none",
                  returned |-> action, threw |-> FALSE]

\* store.dispatch(action)
FbDispatch(action) ==
    /\ Len(fbTrace) < MaxFbOps
    /\ LET d == fbDispatch(fbState, fbListeners, fbNotified, action)
       IN  /\ fbState' = d.state
           /\ fbListeners' = d.listeners
           /\ fbNotified' = d.notified
           /\ fbLast' = [action |-> action, returned |-> d.returned,
                         threw |-> d.threw, caught |-> d.caught,
                         log |-> d.log, before |-> fbState,
                         atStart |-> fbListeners]
    /\ fbTrace' = Append(fbTrace, [op |-> "dispatch", arg |-> action.type,
                                   id |-> action.payload.id])
    /\ UNCHANGED <<storeVars, utilsVars, ret, hookVars, emVars,
                   cartVars, stVars, appVars>>

\* store.subscribe(l)
FbSubscribe(l) ==
    /\ Len(fbTrace) < MaxFbOps
    /\ fbListeners' = Append(fbListeners, l)
    /\ fbTrace' = Append(fbTrace, [op |-> "subscribe", arg |-> l, id |-> 0])
    /\ UNCHANGED <<fbState, fbNotified, fbLast>>
    /\ UNCHANGED <<storeVars, utilsVars, ret, hookVars, emVars,
                   cartVars, stVars, appVars>>

\* A call of the function an earlier subscribe(l) returned.
FbUnsubscribe(l) ==
    /\ Len(fbTrace) < MaxFbOps
    /\ \E i \in DOMAIN fbTrace :
          fbTrace[i].op = "subscribe" /\ fbTrace[i].arg = l
    /\ fbListeners' = unsubscribe(fbListeners, l)
    /\ fbTrace' = Append(fbTrace, [op |-> "unsubscribe", arg |-> l, id |-> 0])
    /\ UNCHANGED <<fbState, fbNotified, fbLast>>
    /\ UNCHANGED <<storeVars, utilsVars, ret, hookVars, emVars,
                   cartVars, stVars, appVars>>

\* No dispatch has been made yet.
NoDispatch ==
    [action |-> [type |-> "none", payload |-> ProductX],
     returned |-> [type |-> "none", payload |-> ProductX],
     threw |-> FALSE, caught |-> "none", log |-> <<>>,
     before |-> FallbackInitialState, atStart |-> <<>>]

(***************************************************************************)
(* App of the product and cart micro frontends (the two are alike)         *)
(***************************************************************************)
\* The effect of App runs after the first render: mounted = true,
\* setIsLoading(true), and loadStore() up to its await.
AppMount ==
    /\ appPc = "init"
    /\ LoadStoreCall
    /\ appPc' = "awaiting"
    /\ appCall' = Len(storeCalls) + 1
    /\ appMounted' = TRUE
    /\ appIsLoading' = TRUE
    /\ UNCHANGED <<appStore, appError>>
    /\ UNCHANGED <<utilsVars, ret, hookVars, emVars,
                   fbVars, cartVars, stVars>>

\* The state the try / catch / finally around `await storeLoader.loadStore()`
\* leaves, given how the awaited promise settled.
AppAfterLoad(call, mounted, st, loading, err, loaderStore) ==
    LET afterTry ==
            IF call.status = "fulfilled"
            THEN IF mounted
                 THEN [store |-> call.value, error |-> Null]
                 ELSE [store |-> st, error |-> err]
            ELSE IF mounted
                 THEN [store |-> IF getStore(loaderStore) # Null
                                 THEN getStore(loaderStore) ELSE st,
                       error |-> "err.message"]
                 ELSE [store |-> st, error |-> err]
    IN  [store |-> afterTry.store, error |-> afterTry.error,
         isLoading |-> IF mounted THEN FALSE ELSE loading]

\* The promise App awaits has settled and the rest of its loadStore runs.
AppLoadSettled ==
    /\ appPc = "awaiting"
    /\ storeCalls[appCall].status # "pending"
    /\ LET a == AppAfterLoad(storeCalls[appCall], appMounted, appStore,
                             appIsLoading, appError, store)
       IN  /\ appStore' = a.store
           /\ appError' = a.error
           /\ appIsLoading' = a.isLoading
    /\ appPc' = "done"
    /\ UNCHANGED <<appCall, appMounted>>
    /\ UNCHANGED <<storeVars, utilsVars, ret, hookVars, emVars,
                   fbVars, cartVars, stVars>>

\* The cleanup of the effect: mounted = false.
AppUnmount ==
    /\ appMounted
    /\ appMounted' = FALSE
    /\ UNCHANGED <<appPc, appCall, appStore, appIsLoading, appError>>
    /\ UNCHANGED <<storeVars, utilsVars, ret, hookVars, emVars,
                   fbVars, cartVars, stVars>>

\* What App renders.
AppView(loading, st, err) ==
    IF loading
    THEN IF err # Null THEN "loading+notice" ELSE "loading"
    ELSE IF st = Null THEN "unable"
    ELSE IF err # Null THEN "provider+notice"
    ELSE "provider"

(***************************************************************************)
(* The hooks of the product micro frontend: useSafeStore, useSafeUtils     *)
(***************************************************************************)
\* useSafeStore: the effect runs after the first render: mounted = true,
\* setIsLoading(true), and loadStore() up to its await.
UseSafeStoreMount ==
    /\ hsPc = "init"
    /\ LoadStoreCall
    /\ hsPc' = "awaiting"
    /\ hsCall' = Len(storeCalls) + 1
    /\ hsMounted' = TRUE
    /\ hsIsLoading' = TRUE
    /\ UNCHANGED <<hsStore, hsError>>
    /\ UNCHANGED <<huPc, huCall, huMounted, huUtils, huIsLoading>>
    /\ UNCHANGED <<utilsVars, ret, fbVars, cartVars, stVars, appVars, emVars>>

\* Mutant: useSafeStore without the `if (mounted)` tests.
UseSafeStoreAfterLoadUnguarded(call, mounted, st, loading, err, ls) ==
    IF call.status = "fulfilled"
    THEN [store |-> call.value, error |-> Null, isLoading |-> FALSE]
    ELSE [store |-> getStore(ls), error |-> "err.message",
          isLoading |-> FALSE]

\* useSafeStore: the state the try / catch / finally around
\* `await storeLoader.loadStore()` leaves, given how the promise settled.
UseSafeStoreAfterLoad(call, mounted, st, loading, err, loaderStore) ==
    IF ~mounted
    THEN [store |-> st, error |-> err, isLoading |-> loading]
    ELSE IF call.status = "fulfilled"
    THEN [store |-> call.value, error |-> Null, isLoading |-> FALSE]
    ELSE [store |-> getStore(loaderStore), error |-> "err.message",
          isLoading |-> FALSE]

\* useSafeStore: the promise the effect awaits has settled.
UseSafeStoreSettled ==
    /\ hsPc = "awaiting"
    /\ storeCalls[hsCall].status # "pending"
    /\ LET a == UseSafeStoreAfterLoad(storeCalls[hsCall], hsMounted, hsStore,
                                      hsIsLoading, hsError, store)
       IN  /\ hsStore' = a.store
           /\ hsError' = a.error
           /\ hsIsLoading' = a.isLoading
    /\ hsPc' = "done"
    /\ UNCHANGED <<hsCall, hsMounted>>
    /\ UNCHANGED <<huPc, huCall, huMounted, huUtils, huIsLoading>>
    /\ UNCHANGED <<storeVars, utilsVars, ret, fbVars, cartVars, stVars,
                   appVars, emVars>>

\* useSafeStore: the cleanup of the effect: mounted = false.
UseSafeStoreUnmount ==
    /\ hsMounted
    /\ hsMounted' = FALSE
    /\ UNCHANGED <<hsPc, hsCall, hsStore, hsIsLoading, hsError>>
    /\ UNCHANGED <<huPc, huCall, huMounted, huUtils, huIsLoading>>
    /\ UNCHANGED <<storeVars, utilsVars, ret, fbVars, cartVars, stVars,
                   appVars, emVars>>

\* useSafeUtils: the effect runs after the first render: mounted = true and
\* loadUtils() up to its await.
UseSafeUtilsMount ==
    /\ huPc = "init"
    /\ LoadUtilsCall
    /\ huPc' = "awaiting"
    /\ huCall' = Len(utilsCalls) + 1
    /\ huMounted' = TRUE
    /\ UNCHANGED <<huUtils, huIsLoading>>
    /\ UNCHANGED <<hsPc, hsCall, hsMounted, hsStore, hsIsLoading, hsError>>
    /\ UNCHANGED <<storeVars, ret, fbVars, cartVars, stVars, appVars, emVars>>

\* useSafeUtils: the state the try / catch / finally around
\* `await utilsLoader.loadUtils()` leaves, given how the promise settled.
UseSafeUtilsAfterLoad(call, mounted, ut, loading, loaderUtils) ==
    IF ~mounted
    THEN [utils |-> ut, isLoading |-> loading]
    ELSE IF call.status = "fulfilled"
    THEN [utils |-> call.value, isLoading |-> FALSE]
    ELSE [utils |-> getUtils(loaderUtils), isLoading |-> FALSE]

\* useSafeUtils: the promise the effect awaits has settled.
UseSafeUtilsSettled ==
    /\ huPc = "awaiting"
    /\ utilsCalls[huCall].status # "pending"
    /\ LET a == UseSafeUtilsAfterLoad(utilsCalls[huCall], huMounted, huUtils,
                                      huIsLoading, utils)
       IN  /\ huUtils' = a.utils
           /\ huIsLoading' = a.isLoading
    /\ huPc' = "done"
    /\ UNCHANGED <<huCall, huMounted>>
    /\ UNCHANGED <<hsPc, hsCall, hsMounted, hsStore, hsIsLoading, hsError>>
    /\ UNCHANGED <<storeVars, utilsVars, ret, fbVars, cartVars, stVars,
                   appVars, emVars>>

\* useSafeUtils: the cleanup of the effect: mounted = false.
UseSafeUtilsUnmount ==
    /\ huMounted
    /\ huMounted' = FALSE
    /\ UNCHANGED <<huPc, huCall, huUtils, huIsLoading>>
    /\ UNCHANGED <<hsPc, hsCall, hsMounted, hsStore, hsIsLoading, hsError>>
    /\ UNCHANGED <<storeVars, utilsVars, ret, fbVars, cartVars, stVars,
                   appVars, emVars>>

(***************************************************************************)
(* The host store's cart slice: cartReducer                                *)
(***************************************************************************)
\* initialState of cartReducer.
initialState == [items |-> <<>>, total |-> 0, itemCount |-> 0]

\* Mutant: the total leaves the quantities out.
calculateTotalsNoQuantity(items) ==
    [itemCount |-> SumQuantity(items),
     total |-> SumPrice([i \in DOMAIN items |->
                            [items[i] EXCEPT !.quantity = 1]])]

\* calculateTotals(items)
calculateTotals(items) ==
    [itemCount |-> SumQuantity(items), total |-> SumPrice(items)]

\* Mutant: ADD_TO_CART always appends a new entry.
addToCartItemsAlwaysAppend(items, product) ==
    Append(items, ItemOf(product, 1))

\* case ADD_TO_CART: newItems
addToCartItems(items, product) ==
    IF HasItem(items, product.id)
    THEN [i \in DOMAIN items |->
            IF items[i].id = product.id
            THEN [items[i] EXCEPT !.quantity = @ + 1]
            ELSE items[i]]
    ELSE Append(items, ItemOf(product, 1))

\* case REMOVE_FROM_CART: newItems
removeFromCartItems(items, id) ==
    SelectSeq(items, LAMBDA item : item.id # id)

\* Math.max(0, quantity)
MathMax0(quantity) == IF quantity > 0 THEN quantity ELSE 0

\* Mutant: UPDATE_QUANTITY without the filter of the emptied items.
updateQuantityItemsNoFilter(items, productId, quantity) ==
    [i \in DOMAIN items |->
        IF items[i].id = productId
        THEN [items[i] EXCEPT !.quantity = MathMax0(quantity)]
        ELSE items[i]]

\* case UPDATE_QUANTITY: newItems
updateQuantityItems(items, productId, quantity) ==
    SelectSeq([i \in DOMAIN items |->
                  IF items[i].id = productId
                  THEN [items[i] EXCEPT !.quantity = MathMax0(quantity)]
                  ELSE items[i]],
              LAMBDA item : item.quantity > 0)

\* An action given to cartReducer; the fields a type does not use are fixed.
CartAction(type, product, productId, quantity, items) ==
    [type |-> type, product |-> product, productId |-> productId,
     quantity |-> quantity, items |-> items]

\* { ...state, items: newItems, itemCount, total }
WithItems(newItems) ==
    [items |-> newItems, total |-> calculateTotals(newItems).total,
     itemCount |-> calculateTotals(newItems).itemCount]

\* cartReducer(state, action)
cartReducer(state, action) ==
    CASE action.type = "ADD_TO_CART" ->
            WithItems(addToCartItems(state.items, action.product))
      [] action.type = "REMOVE_FROM_CART" ->
            WithItems(removeFromCartItems(state.items, action.productId))
      [] action.type = "UPDATE_QUANTITY" ->
            WithItems(updateQuantityItems(state.items, action.productId,
                                          action.quantity))
      [] action.type = "CLEAR_CART" -> initialState
      [] action.type = "SET_CART_ITEMS" -> WithItems(action.items)
      [] OTHER -> state

\* The products, ids and quantities the consumers put into cart actions.
CartProducts == {ProductX, ProductY}

CartIds == {p.id : p \in CartProducts}

CartQuantities == (0 - 1)..MaxQty

\* The item lists given to SET_CART_ITEMS: items with a positive quantity, an
\* id possibly more than once.
CartItemLists ==
    UNION {[1..n -> {ItemOf(p, k) : p \in CartProducts, k \in 1..MaxQty}] :
              n \in 0..MaxSetLen}

\* store.dispatch(action) on the host store, seen from the cart slice.
CartDispatch(action) ==
    /\ cart' = cartReducer(cart, action)
    /\ \A i \in DOMAIN cart'.items : cart'.items[i].quantity <= MaxQty
    /\ cartLast' = action
    /\ UNCHANGED <<storeVars, utilsVars, ret, hookVars, emVars,
                   fbVars, stVars, appVars>>

CartAdd(product) ==
    CartDispatch(CartAction("ADD_TO_CART", product, 0, 0, <<>>))

CartRemove(id) ==
    CartDispatch(CartAction("REMOVE_FROM_CART", ProductX, id, 0, <<>>))

CartUpdate(id, quantity) ==
    CartDispatch(CartAction("UPDATE_QUANTITY", ProductX, id, quantity, <<>>))

CartClear == CartDispatch(CartAction("CLEAR_CART", ProductX, 0, 0, <<>>))

CartSet(items) ==
    CartDispatch(CartAction("SET_CART_ITEMS", ProductX, 0, 0, items))

(***************************************************************************)
(* The storage helpers: storage and fallbackUtils.storage                  *)
(***************************************************************************)
\* The two objects with the same get, set and remove code.
StorageHelpers == {"storage", "fallbackUtils.storage"}

StKeys == {"test-key", "other-key"}

\* JavaScript values given to storage.set; Null is the value null. All but
\* undefined are JSON-serializable.
Undefined == "undefined"

JsonSerializable == {Null, "false", "0", "emptyString", "object"}

StValues == JsonSerializable \cup {Undefined}

\* The defaultValue argument of storage.get: left out, or a value.
NotGiven == "notGiven"

StDefaults == {NotGiven, "defaultObject"}

\* (key, defaultValue = null)
DefaultOf(d) == IF d = NotGiven THEN Null ELSE d

\* JSON.stringify(value): the text, or undefined for the value undefined.
JSONstringify(value) ==
    CASE value = Null -> "'null'"
      [] value = "false" -> "'false'"
      [] value = "0" -> "'0'"
      [] value = "emptyString" -> "'\"\"'"
      [] value = "object" -> "'{\"test\":\"value\"}'"
      [] OTHER -> Undefined

\* localStorage.setItem stores the string conversion of its second argument.
ToStoredString(x) == IF x = Undefined THEN "'undefined'" ELSE x

\* JSON.parse(text): the value, or a SyntaxError for a text that is no JSON.
JSONparse(text) ==
    CASE text = "'null'" -> [threw |-> FALSE, value |-> Null]
      [] text = "'false'" -> [threw |-> FALSE, value |-> "false"]
      [] text = "'0'" -> [threw |-> FALSE, value |-> "0"]
      [] text = "'\"\"'" -> [threw |-> FALSE, value |-> "emptyString"]
      [] text = "'{\"test\":\"value\"}'" ->
            [threw |-> FALSE, value |-> "object"]
      [] OTHER -> [threw |-> TRUE, value |-> Undefined]

\* The truth value of `item` in `item ? ... : ...`: null and the empty string
\* are falsy.
Truthy(item) == item \notin {Null, "''"}

\* The outcome of a helper call: the store after it, what it returned and
\* whether it threw.
StOutcome(ls, result, threw) ==
    [ls |-> ls, result |-> result, threw |-> threw]

\* try { body } catch { return catchResult }
Caught(body, catchResult) ==
    IF body.threw THEN StOutcome(body.ls, catchResult, FALSE) ELSE body

\* A statement of a try block has thrown.
Thrown(ls) == StOutcome(ls, Undefined, TRUE)

\* The try block of storage.get; failed: localStorage.getItem throws.
storageGetBody(ls, key, defaultValue, failed) ==
    IF failed THEN Thrown(ls)
    ELSE IF Truthy(ls[key])
         THEN IF JSONparse(ls[key]).threw THEN Thrown(ls)
              ELSE StOutcome(ls, JSONparse(ls[key]).value, FALSE)
         ELSE StOutcome(ls, defaultValue, FALSE)

\* Mutant: get returns the stored text without JSON.parse.
storageGetNoParse(ls, key, defaultValue, failed) ==
    Caught(IF failed THEN Thrown(ls)
           ELSE IF Truthy(ls[key]) THEN StOutcome(ls, ls[key], FALSE)
                ELSE StOutcome(ls, defaultValue, FALSE),
           defaultValue)

\* storage.get(key, defaultValue)
storageGet(ls, key, defaultValue, failed) ==
    Caught(storageGetBody(ls, key, defaultValue, failed), defaultValue)

\* storage.set(key, value); failed: localStorage.setItem throws.
storageSet(ls, key, value, failed) ==
    Caught(IF failed THEN Thrown(ls)
           ELSE StOutcome([ls EXCEPT
                              ![key] = ToStoredString(JSONstringify(value))],
                          "true", FALSE),
           "false")

\* storage.remove(key); failed: localStorage.removeItem throws.
storageRemove(ls, key, failed) ==
    Caught(IF failed THEN Thrown(ls)
           ELSE StOutcome([ls EXCEPT ![key] = Null], "true", FALSE),
           "false")

\* storage.clear(); failed: localStorage.clear throws.
storageClear(ls, failed) ==
    Caught(IF failed THEN Thrown(ls)
           ELSE StOutcome([k \in StKeys |-> Null], "true", FALSE),
           "false")

\* The record of the last helper call.
StCall(helper, op, key, value, default, failed, out) ==
    [helper |-> helper, op |-> op, key |-> key, value |-> value,
     default |-> default, failed |-> failed, result |-> out.result,
     threw |-> out.threw]

StStep(helper, op, key, value, default, failed, out) ==
    /\ localStorage' = out.ls
    /\ stLast' = StCall(helper, op, key, value, default, failed, out)
    /\ UNCHANGED <<storeVars, utilsVars, ret, hookVars, emVars,
                   fbVars, cartVars, appVars>>

StGet(helper, key, default, failed) ==
    StStep(helper, "get", key, Null, default, failed,
           storageGet(localStorage, key, DefaultOf(default), failed))

StSet(helper, key, value, failed) ==
    StStep(helper, "set", key, value, NotGiven, failed,
           storageSet(localStorage, key, value, failed))

StRemove(helper, key, failed) ==
    StStep(helper, "remove", key, Null, NotGiven, failed,
           storageRemove(localStorage, key, failed))

StClear(failed) ==
    StStep("storage", "clear", "test-key", Null, NotGiven, failed,
           storageClear(localStorage, failed))

(***************************************************************************)
(* The shared eventEmitter: class EventEmitter                             *)
(***************************************************************************)
EmEvents == {"e", "f"}

EmData == {"d1", "d2"}

\* The callbacks the consumers register, named after what they do when they
\* are invoked: nothing to the emitter ("plain", "other"), emit event "e"
\* with the data they were given, the first time only ("emitsE"), or
\* off("e", plain) ("offPlain").
EmCallbacks == {"plain", "other", "emitsE", "offPlain"}

\* An element of this.events[event]: callback cb itself (wrapper = 0), or
\* the wrapper that the n-th once() call made around cb (wrapper = n).
EmEntry(cb, wrapper) == [cb |-> cb, wrapper |-> wrapper]

\* this.events = {}
NoEvents == [e \in EmEvents |-> [has |-> FALSE, list |-> <<>>]]

\* Mutant: on puts the callback in front of the ones registered before.
onInFront(ev, event, entry) ==
    [ev EXCEPT ![event] = [has |-> TRUE, list |-> <<entry>> \o @.list]]

\* on(event, callback)
on(ev, event, entry) ==
    [ev EXCEPT ![event] = [has |-> TRUE, list |-> Append(@.list, entry)]]

\* off(event, callback)
off(ev, event, entry) ==
    IF ev[event].has
    THEN [ev EXCEPT ![event].list = SelectSeq(@, LAMBDA cb : cb # entry)]
    ELSE ev

\* The emitter and the callbacks' own state while calls run: this.events,
\* the callbacks that have made their emit, the invocation counts of the
\* once() callbacks and the invocations of the running top-level call.
EmState(ev, fired, invoked, log) ==
    [events |-> ev, fired |-> fired, invoked |-> invoked, log |-> log]

RECURSIVE emit(_, _, _, _)
RECURSIVE forEachCallback(_, _, _, _, _, _)
RECURSIVE callCallback(_, _, _, _, _)

\* callback(data) for the callback of `entry`, taken from the array of
\* `event` at nesting depth `depth` of emit calls.
callCallback(st, entry, event, data, depth) ==
    LET called ==
            [st EXCEPT
               !.log = Append(@, [cb |-> entry.cb, wrapper |-> entry.wrapper,
                                  event |-> event, data |-> data,
                                  depth |-> depth]),
               !.invoked = IF entry.wrapper > 0
                           THEN [@ EXCEPT ![entry.wrapper] = @ + 1]
                           ELSE @]
    IN  CASE entry.cb = "emitsE" /\ "emitsE" \notin st.fired ->
                emit([called EXCEPT !.fired = @ \cup {"emitsE"}],
                     "e", data, depth + 1)
          [] entry.cb = "offPlain" ->
                [called EXCEPT
                    !.events = off(@, "e", EmEntry("plain", 0))]
          [] OTHER -> called

\* One step of forEach: the callback itself, or the wrapper of once:
\* callback(data); this.off(event, wrapper).
callEntry(st, entry, event, data, depth) ==
    IF entry.wrapper = 0
    THEN callCallback(st, entry, event, data, depth)
    ELSE LET after == callCallback(st, entry, event, data, depth)
         IN  [after EXCEPT !.events = off(@, event, entry)]

\* array.forEach(callback => callback(data)) from index k on.  off replaces
\* this.events[event] by a new array and on only appends, so the elements
\* forEach visits are those the array had when emit began.
forEachCallback(st, array, k, event, data, depth) ==
    IF k > Len(array) THEN st
    ELSE forEachCallback(callEntry(st, array[k], event, data, depth),
                         array, k + 1, event, data, depth)

\* emit(event, data)
emit(st, event, data, depth) ==
    IF st.events[event].has
    THEN forEachCallback(st, st.events[event].list, 1, event, data, depth)
    ELSE st

\* The record of the last call made on the eventEmitter by a consumer.
EmCall(op, event, cb, data, before, log) ==
    [op |-> op, event |-> event, cb |-> cb, data |-> data,
     before |-> before, log |-> log]

\* eventEmitter.on(event, cb)
EmOn(event, cb) ==
    /\ emOps < MaxEmOps
    /\ events' = on(events, event, EmEntry(cb, 0))
    /\ emOps' = emOps + 1
    /\ emLast' = EmCall("on", event, cb, "d1", events, <<>>)
    /\ UNCHANGED <<emFired, emInvoked>>
    /\ UNCHANGED <<storeVars, utilsVars, ret, fbVars, cartVars, stVars,
                   appVars, hookVars>>

\* eventEmitter.off(event, cb)
EmOff(event, cb) ==
    /\ emOps < MaxEmOps
    /\ events' = off(events, event, EmEntry(cb, 0))
    /\ emOps' = emOps + 1
    /\ emLast' = EmCall("off", event, cb, "d1", events, <<>>)
    /\ UNCHANGED <<emFired, emInvoked>>
    /\ UNCHANGED <<storeVars, utilsVars, ret, fbVars, cartVars, stVars,
                   appVars, hookVars>>

\* eventEmitter.once(event, cb)
EmOnce(event, cb) ==
    /\ emOps < MaxEmOps
    /\ events' = on(events, event, EmEntry(cb, Len(emInvoked) + 1))
    /\ emInvoked' = Append(emInvoked, 0)
    /\ emOps' = emOps + 1
    /\ emLast' = EmCall("once", event, cb, "d1", events, <<>>)
    /\ UNCHANGED emFired
    /\ UNCHANGED <<storeVars, utilsVars, ret, fbVars, cartVars, stVars,
                   appVars, hookVars>>

\* eventEmitter.emit(event, data)
EmEmit(event, data) ==
    /\ emOps < MaxEmOps
    /\ LET st == emit(EmState(events, emFired, emInvoked, <<>>),
                      event, data, 1)
       IN  /\ events' = st.events
           /\ emFired' = st.fired
           /\ emInvoked' = st.invoked
           /\ emLast' = EmCall("emit", event, "plain", data, events, st.log)
    /\ emOps' = emOps + 1
    /\ UNCHANGED <<storeVars, utilsVars, ret, fbVars, cartVars, stVars,
                   appVars, hookVars>>

(***************************************************************************)
(* Specification                                                           *)
(***************************************************************************)
Init ==
    /\ store = Null
    /\ storePromise = NoPromise
    /\ fallbackStore = Null
    /\ storeSeqs = <<>>
    /\ storeCalls = <<>>
    /\ storeImports = 0
    /\ storeLoaded = Null
    /\ utils = Null
    /\ utilsPromise = NoPromise
    /\ utilsSeqs = <<>>
    /\ utilsCalls = <<>>
    /\ utilsImports = 0
    /\ utilsLoaded = Null
    /\ ret = [op |-> "none", value |-> Null, flag |-> FALSE]
    /\ fbState = FallbackInitialState
    /\ fbListeners = <<>>
    /\ fbNotified = [l \in Listeners |-> 0]
    /\ fbTrace = <<>>
    /\ fbLast = NoDispatch
    /\ cart = initialState
    /\ cartLast = CartAction("none", ProductX, 0, 0, <<>>)
    /\ localStorage = [k \in StKeys |-> Null]
    /\ stLast = StCall("storage", "none", "test-key", Null, NotGiven, FALSE,
                       StOutcome(localStorage, Null, FALSE))
    /\ appPc = "init"
    /\ appCall = 0
    /\ appMounted = FALSE
    /\ appStore = Null
    /\ appIsLoading = TRUE
    /\ appError = Null
    /\ hsPc = "init"
    /\ hsCall = 0
    /\ hsMounted = FALSE
    /\ hsStore = Null
    /\ hsIsLoading = TRUE
    /\ hsError = Null
    /\ huPc = "init"
    /\ huCall = 0
    /\ huMounted = FALSE
    /\ huUtils = Null
    /\ huIsLoading = TRUE
    /\ events = NoEvents
    /\ emFired = {}
    /\ emInvoked = <<>>
    /\ emOps = 0
    /\ emLast = EmCall("none", "e", "plain", "d1", NoEvents, <<>>)

Next ==
    \/ LoadStore
    \/ \E s \in DOMAIN storeSeqs : StoreImportResolves(s)
    \/ \E s \in DOMAIN storeSeqs : StoreImportThrows(s)
    \/ \E s \in DOMAIN storeSeqs : StoreDelayElapsed(s)
    \/ GetStore
    \/ IsStoreLoaded
    \/ LoadUtils
    \/ \E s \in DOMAIN utilsSeqs : UtilsImportResolves(s)
    \/ \E s \in DOMAIN utilsSeqs : UtilsImportThrows(s)
    \/ \E s \in DOMAIN utilsSeqs : UtilsDelayElapsed(s)
    \/ GetUtils
    \/ IsUtilsLoaded

Spec == Init /\ [][Next]_vars

\* The loaders under an environment in which every pending import() settles
\* and every armed timer fires.
StoreImportSettles ==
    \E s \in DOMAIN storeSeqs : StoreImportResolves(s) \/ StoreImportThrows(s)

StoreTimerFires == \E s \in DOMAIN storeSeqs : StoreDelayElapsed(s)

UtilsImportSettles ==
    \E s \in DOMAIN utilsSeqs : UtilsImportResolves(s) \/ UtilsImportThrows(s)

UtilsTimerFires == \E s \in DOMAIN utilsSeqs : UtilsDelayElapsed(s)

LiveNext ==
    \/ LoadStore
    \/ \E s \in DOMAIN storeSeqs : StoreImportResolves(s)
    \/ \E s \in DOMAIN storeSeqs : StoreImportThrows(s)
    \/ \E s \in DOMAIN storeSeqs : StoreDelayElapsed(s)
    \/ LoadUtils
    \/ \E s \in DOMAIN utilsSeqs : UtilsImportResolves(s)
    \/ \E s \in DOMAIN utilsSeqs : UtilsImportThrows(s)
    \/ \E s \in DOMAIN utilsSeqs : UtilsDelayElapsed(s)

LiveSpec ==
    /\ Init
    /\ [][LiveNext]_vars
    /\ WF_vars(StoreImportSettles)
    /\ WF_vars(StoreTimerFires)
    /\ WF_vars(UtilsImportSettles)
    /\ WF_vars(UtilsTimerFires)

\* App and the store loader it uses, with other consumers calling loadStore.
AppNext ==
    \/ AppMount
    \/ AppLoadSettled
    \/ AppUnmount
    \/ LoadStore
    \/ \E s \in DOMAIN storeSeqs : StoreImportResolves(s)
    \/ \E s \in DOMAIN storeSeqs : StoreImportThrows(s)
    \/ \E s \in DOMAIN storeSeqs : StoreDelayElapsed(s)

AppSpec == Init /\ [][AppNext]_vars

\* The cart slice of the host store under the actions of its consumers.
CartNext ==
    \/ \E p \in CartProducts : CartAdd(p)
    \/ \E id \in CartIds : CartRemove(id)
    \/ \E id \in CartIds, q \in CartQuantities : CartUpdate(id, q)
    \/ CartClear
    \/ \E items \in CartItemLists : CartSet(items)

CartSpec == Init /\ [][CartNext]_vars

\* The storage helpers over one localStorage whose calls may fail.
StNext ==
    \/ \E h \in StorageHelpers, k \in StKeys, d \in StDefaults,
          f \in BOOLEAN : StGet(h, k, d, f)
    \/ \E h \in StorageHelpers, k \in StKeys, v \in StValues,
          f \in BOOLEAN : StSet(h, k, v, f)
    \/ \E h \in StorageHelpers, k \in StKeys, f \in BOOLEAN :
          StRemove(h, k, f)
    \/ \E f \in BOOLEAN : StClear(f)

StSpec == Init /\ [][StNext]_vars

\* App and the two hooks, each mounted in one component, over the two loaders.
HookNext ==
    \/ AppMount
    \/ AppLoadSettled
    \/ AppUnmount
    \/ UseSafeStoreMount
    \/ UseSafeStoreSettled
    \/ UseSafeStoreUnmount
    \/ UseSafeUtilsMount
    \/ UseSafeUtilsSettled
    \/ UseSafeUtilsUnmount
    \/ \E s \in DOMAIN storeSeqs : StoreImportResolves(s)
    \/ \E s \in DOMAIN storeSeqs : StoreImportThrows(s)
    \/ \E s \in DOMAIN storeSeqs : StoreDelayElapsed(s)
    \/ \E s \in DOMAIN utilsSeqs : UtilsImportResolves(s)
    \/ \E s \in DOMAIN utilsSeqs : UtilsImportThrows(s)
    \/ \E s \in DOMAIN utilsSeqs : UtilsDelayElapsed(s)

HookSpec == Init /\ [][HookNext]_vars

\* The shared eventEmitter and its consumers.
EmNext ==
    \/ \E e \in EmEvents, cb \in EmCallbacks : EmOn(e, cb)
    \/ \E e \in EmEvents, cb \in EmCallbacks : EmOff(e, cb)
    \/ \E e \in EmEvents, cb \in EmCallbacks : EmOnce(e, cb)
    \/ \E e \in EmEvents, d \in EmData : EmEmit(e, d)

EmSpec == Init /\ [][EmNext]_vars

\* The fallback store and its consumers.
FbNext ==
    \/ \E a \in FbActions : FbDispatch(a)
    \/ \E l \in Listeners : FbSubscribe(l)
    \/ \E l \in Listeners : FbUnsubscribe(l)

FbSpec == Init /\ [][FbNext]_vars

(***************************************************************************)
(* Properties                                                              *)
(***************************************************************************)
\* The store values a provider module can carry as its default export.
HostStores == {ModuleDefault(m) : m \in StoreModules} \ {Null}

AllThrow(q) == \A j \in DOMAIN q.outcomes : q.outcomes[j] = "throw"

\* The calls made when the async body s was started or while it was running.
CallsDuring(calls, s) ==
    {k \in DOMAIN calls : calls[k].promise = s \/ s \in calls[k].inflight}

\* The import() invocations made since the async body s was started and
\* until it finished.
ImportsDuring(q, imports) ==
    (IF q.pc = "done" THEN q.importsAtEnd ELSE imports) - q.importsAtStart

\* C1: whatever the import attempts do (throw, resolve to a module without a
\* default export, resolve to a valid module), the promise loadStore()
\* returns never rejects, and when it has fulfilled its value is the
\* provider's store (module.default) or the fallback store.
C1_LoadStoreNeverRejects ==
    /\ \A s \in DOMAIN storeSeqs : storeSeqs[s].status # "rejected"
    /\ \A k \in DOMAIN storeCalls :
          /\ storeCalls[k].status # "rejected"
          /\ storeCalls[k].status = "fulfilled" =>
                \/ /\ storeLoaded # Null
                   /\ ModuleDefault(storeLoaded) # Null
                   /\ storeCalls[k].value = ModuleDefault(storeLoaded)
                \/ /\ fallbackStore # Null
                   /\ storeCalls[k].value = fallbackStore

\* C1 witness: one call was answered with the fallback store after three
\* thrown imports and a later one with the provider's store.
C1_Witness ==
    \E k1, k2 \in DOMAIN storeCalls :
        /\ storeCalls[k1].status = "fulfilled"
        /\ storeCalls[k1].value = FallbackStoreObject
        /\ storeCalls[k1].promise # NoPromise
        /\ storeSeqs[storeCalls[k1].promise].outcomes
              = <<"throw", "throw", "throw">>
        /\ storeCalls[k2].status = "fulfilled"
        /\ storeCalls[k2].value \in HostStores

\* C2: the loadStore() calls made while an acquisition sequence is in flight
\* share that sequence: between its start and its end import('host/store')
\* is invoked at most 3 times in total, every such call returns the promise
\* of that sequence, and all of them settle together with the same value.
C2_Coalescing ==
    \A s \in DOMAIN storeSeqs :
        /\ ImportsDuring(storeSeqs[s], storeImports) <= Retries
        /\ \A k \in CallsDuring(storeCalls, s) :
              /\ storeCalls[k].promise = s
              /\ storeCalls[k].status = storeSeqs[s].status
              /\ storeCalls[k].value = storeSeqs[s].value

\* C2 witness: three calls shared one sequence that made three imports and
\* all three have settled.
C2_Witness ==
    /\ Len(storeSeqs) = 1
    /\ storeSeqs[1].pc = "done"
    /\ storeSeqs[1].attempts = Retries
    /\ Cardinality(CallsDuring(storeCalls, 1)) = 3
    /\ \A k \in CallsDuring(storeCalls, 1) : storeCalls[k].status = "fulfilled"

\* C3: once one loadStore() call has resolved, every later loadStore() call
\* resolves to the identical value.
C3_LaterCallsSameValue ==
    \A k2 \in DOMAIN storeCalls :
        \A k1 \in storeCalls[k2].prior :
            storeCalls[k2].status = "fulfilled" =>
                storeCalls[k2].value = storeCalls[k1].value

\* C4: once one loadStore() call has resolved, the number of import attempts
\* made for 'host/store' never increases again.
C4_NoImportAfterResolved ==
    [][Settled(storeCalls) # {} => storeImports' = storeImports]_vars

\* C5: when every import attempt throws, one acquisition sequence makes
\* exactly 3 import attempts with one wait of the fixed delay between
\* consecutive attempts (2 waits, none after the last attempt) and then
\* fulfills with the fallback store.
C5_RetryCeiling ==
    \A s \in DOMAIN storeSeqs :
        LET q == storeSeqs[s]
        IN  AllThrow(q) =>
              /\ q.attempts <= Retries
              /\ q.pc = "import" => /\ q.delays = q.attempts - 1
                                    /\ q.waited = q.delays * DelayMs
              /\ q.pc = "delay" => /\ q.delays = q.attempts
                                   /\ q.attempts < Retries
                                   /\ q.waited = (q.delays - 1) * DelayMs
              /\ q.pc = "done" => /\ q.attempts = Retries
                                  /\ Len(q.outcomes) = Retries
                                  /\ q.delays = Retries - 1
                                  /\ q.waited = (Retries - 1) * DelayMs
                                  /\ q.status = "fulfilled"
                                  /\ q.value = FallbackStoreObject
                                  /\ q.usingFallback

\* C5 witness: a sequence whose three imports all threw has finished.
C5_Witness ==
    \E s \in DOMAIN storeSeqs :
        /\ storeSeqs[s].pc = "done"
        /\ storeSeqs[s].outcomes = <<"throw", "throw", "throw">>
        /\ storeSeqs[s].waited = 2000

C7_IsStoreLoadedAfterSettle ==
    isStoreLoaded(store) <=> (Settled(storeCalls) # {})

\* C8: getStore() is null until a loadStore() call has settled and from then
\* on is the value loadStore() resolved with; getUtils() likewise for
\* loadUtils().
C8_GetterReturnsResolvedValue ==
    /\ Settled(storeCalls) = {} => getStore(store) = Null
    /\ \A k \in Settled(storeCalls) : getStore(store) = storeCalls[k].value
    /\ Settled(utilsCalls) = {} => getUtils(utils) = Null
    /\ \A k \in Settled(utilsCalls) : getUtils(utils) = utilsCalls[k].value

\* C9: getStore(), isStoreLoaded(), getUtils() and isUtilsLoaded() start no
\* import attempt and change neither the memoized values, the in-flight
\* markers, the fallback store nor the running sequences.
C9_AccessorsTriggerNothing ==
    [][(GetStore \/ IsStoreLoaded \/ GetUtils \/ IsUtilsLoaded) =>
          /\ storeImports' = storeImports
          /\ utilsImports' = utilsImports
          /\ store' = store
          /\ utils' = utils
          /\ storePromise' = storePromise
          /\ utilsPromise' = utilsPromise
          /\ fallbackStore' = fallbackStore
          /\ storeSeqs' = storeSeqs
          /\ utilsSeqs' = utilsSeqs]_vars

\* C9 witness: getStore() was called on a loader that had fallen back and had
\* a new sequence in flight, and nothing of it was disturbed.
C9_Witness ==
    /\ ret.op = "getStore"
    /\ ret.value = Null
    /\ fallbackStore # Null
    /\ storePromise # NoPromise
    /\ store = Null

\* C10: when the first import attempt of a sequence resolves to a module with
\* a default export, the promise fulfills with exactly that default object
\* after one attempt and no wait, the sequence does not use the fallback
\* store, and on a fresh loader the fallback store is never built.
C10_FirstAttemptSuccess ==
    \A s \in DOMAIN storeSeqs :
        LET q == storeSeqs[s]
        IN  (q.outcomes # <<>> /\ ModuleDefault(q.outcomes[1]) # Null) =>
              /\ q.pc = "done"
              /\ q.status = "fulfilled"
              /\ q.value = ModuleDefault(q.outcomes[1])
              /\ store = q.value
              /\ q.attempts = 1
              /\ q.delays = 0
              /\ q.waited = 0
              /\ ~q.usingFallback
              /\ s = 1 => fallbackStore = Null
              /\ \A k \in DOMAIN storeCalls :
                    storeCalls[k].promise = s =>
                       storeCalls[k].value = ModuleDefault(q.outcomes[1])

\* C10 witness: the first import of a fresh loader resolved to module B and
\* the caller holds hostStoreB.
C10_Witness ==
    /\ Len(storeSeqs) >= 1
    /\ storeSeqs[1].outcomes = <<"storeModuleB">>
    /\ storeCalls[1].status = "fulfilled"
    /\ storeCalls[1].value = "hostStoreB"
    /\ fallbackStore = Null

\* The fallback store has only been given n >= 1 add-item actions, all for
\* product X ({id: 1, name: 'X', price: 10}).
OnlyAddX(trace) ==
    /\ trace # <<>>
    /\ \A i \in DOMAIN trace :
          /\ trace[i].op = "dispatch"
          /\ trace[i].arg = "ADD_TO_CART"
          /\ trace[i].id = ProductX.id

\* C11: on a fresh fallback store, one add-item dispatch of product X yields
\* getState().cart.items of length 1 whose item has quantity 1, and every
\* further dispatch of the same id raises that quantity by one and adds no
\* second entry.
C11_FallbackAddItem ==
    OnlyAddX(fbTrace) =>
        /\ "cart" \in fbState.slices
        /\ Len(fbState.cart.items) = 1
        /\ fbState.cart.items[1].id = ProductX.id
        /\ fbState.cart.items[1].quantity = Len(fbTrace)

\* C12: a listener that is subscribed, sees one dispatch, is unsubscribed and
\* then another action is dispatched has been called exactly once, whatever
\* the two actions are.
C12_SubscribeDispatchUnsubscribe ==
    ( /\ Len(fbTrace) = 4
      /\ fbTrace[1].op = "subscribe" /\ fbTrace[1].arg = "plain"
      /\ fbTrace[2].op = "dispatch"
      /\ fbTrace[3].op = "unsubscribe" /\ fbTrace[3].arg = "plain"
      /\ fbTrace[4].op = "dispatch" )
        => fbNotified["plain"] = 1

\* C13: loadUtils() never rejects; a sequence in which an import fulfilled
\* with module m resolves to m.default, or to m itself when m has no default
\* export, and a sequence whose 3 imports all threw resolves to the fixed
\* fallback bundle.
C13_LoadUtilsNeverRejects ==
    /\ \A k \in DOMAIN utilsCalls :
          /\ utilsCalls[k].status # "rejected"
          /\ utilsCalls[k].promise # NoPromise =>
                /\ utilsCalls[k].status = utilsSeqs[utilsCalls[k].promise].status
                /\ utilsCalls[k].value = utilsSeqs[utilsCalls[k].promise].value
          /\ (utilsCalls[k].promise = NoPromise) =>
                /\ utilsCalls[k].status = "fulfilled"
                /\ utilsCalls[k].value = utils
                /\ utils # Null
    /\ \A s \in DOMAIN utilsSeqs :
          LET q == utilsSeqs[s]
              m == q.outcomes[Len(q.outcomes)]
          IN  /\ q.status # "rejected"
              /\ q.pc = "done" =>
                    /\ q.status = "fulfilled"
                    /\ m \in UtilsModules =>
                          q.value = (IF ModuleDefault(m) # Null
                                     THEN ModuleDefault(m) ELSE m)
                    /\ m = "throw" =>
                          /\ q.value = fallbackUtils
                          /\ q.attempts = Retries
                          /\ AllThrow(q)

\* C13 witness: one loadUtils() call was answered with the fallback bundle
\* after three thrown imports and a later one with the provider's default
\* export.
C13_Witness ==
    \E k1, k2 \in DOMAIN utilsCalls :
        /\ utilsCalls[k1].status = "fulfilled"
        /\ utilsCalls[k1].value = fallbackUtils
        /\ utilsCalls[k2].status = "fulfilled"
        /\ utilsCalls[k2].value = "hostUtils"

C15_EveryLoadFulfills ==
    /\ [](\A s \in DOMAIN storeSeqs : storeSeqs[s].attempts <= Retries)
    /\ [](\A s \in DOMAIN utilsSeqs : utilsSeqs[s].attempts <= Retries)
    /\ \A k \in 1..MaxStoreCalls :
          (k \in DOMAIN storeCalls) ~>
              (k \in DOMAIN storeCalls /\ storeCalls[k].status = "fulfilled")
    /\ \A k \in 1..MaxUtilsCalls :
          (k \in DOMAIN utilsCalls) ~>
              (k \in DOMAIN utilsCalls /\ utilsCalls[k].status = "fulfilled")

\* C15 witness: a store sequence that used all 3 attempts and a utils
\* sequence have finished and every call made has been fulfilled.
C15_Witness ==
    /\ \E s \in DOMAIN storeSeqs :
          storeSeqs[s].pc = "done" /\ storeSeqs[s].attempts = Retries
    /\ \E s \in DOMAIN utilsSeqs : utilsSeqs[s].pc = "done"
    /\ Len(storeCalls) >= 2
    /\ \A k \in DOMAIN storeCalls : storeCalls[k].status = "fulfilled"
    /\ \A k \in DOMAIN utilsCalls : utilsCalls[k].status = "fulfilled"

\* C16: when the App is mounted and its loadStore() has resolved, it renders
\* the Provider with the resolved store; with the fallback store it shows
\* the 'Running in fallback mode' notice, with the real store it does not.
C16_FallbackNoticeShown ==
    (appPc = "done" /\ appMounted /\ storeCalls[appCall].status = "fulfilled")
        => /\ appStore = storeCalls[appCall].value
           /\ storeCalls[appCall].value = FallbackStoreObject =>
                 AppView(appIsLoading, appStore, appError) = "provider+notice"
           /\ storeCalls[appCall].value \in HostStores =>
                 AppView(appIsLoading, appStore, appError) = "provider"

\* The sum of f over the items, from the first item on.
RECURSIVE QuantityFrom(_, _)
QuantityFrom(items, i) ==
    IF i > Len(items) THEN 0
    ELSE items[i].quantity + QuantityFrom(items, i + 1)

RECURSIVE PriceFrom(_, _)
PriceFrom(items, i) ==
    IF i > Len(items) THEN 0
    ELSE items[i].price * items[i].quantity + PriceFrom(items, i + 1)

DistinctIds(items) ==
    \A i, j \in DOMAIN items : items[i].id = items[j].id => i = j

\* C17: after every sequence of ADD_TO_CART, REMOVE_FROM_CART,
\* UPDATE_QUANTITY, CLEAR_CART and SET_CART_ITEMS actions, itemCount is the
\* sum of the items' quantities and total the sum of price * quantity.
C17_CartTotals ==
    /\ cart.itemCount = QuantityFrom(cart.items, 1)
    /\ cart.total = PriceFrom(cart.items, 1)

\* C17 witness: a cart with two different items, one of them with a quantity
\* above 1, after an UPDATE_QUANTITY.
C17_Witness ==
    /\ cartLast.type = "UPDATE_QUANTITY"
    /\ Len(cart.items) = 2
    /\ cart.items[1].id # cart.items[2].id
    /\ cart.items[1].quantity = 3
    /\ cart.total = 50

C19_AddToCart ==
    [][/\ cartLast'.type = "ADD_TO_CART" =>
            LET p == cartLast'.product
            IN  IF HasItem(cart.items, p.id)
                THEN /\ Len(cart'.items) = Len(cart.items)
                     /\ \A i \in DOMAIN cart.items :
                           cart'.items[i] =
                              IF cart.items[i].id = p.id
                              THEN [cart.items[i] EXCEPT !.quantity = @ + 1]
                              ELSE cart.items[i]
                ELSE cart'.items = Append(cart.items, ItemOf(p, 1))
       /\ (/\ DistinctIds(cart.items)
           /\ cartLast'.type \in {"ADD_TO_CART", "REMOVE_FROM_CART",
                                  "UPDATE_QUANTITY", "CLEAR_CART"})
             => DistinctIds(cart'.items)
    ]_vars

\* C19 witness: product X was added to a cart that already held it and
\* product Y; the cart still has two entries and X has quantity 2.
C19_Witness ==
    /\ cartLast.type = "ADD_TO_CART"
    /\ cartLast.product = ProductX
    /\ Len(cart.items) = 2
    /\ DistinctIds(cart.items)
    /\ \E i \in DOMAIN cart.items :
          cart.items[i].id = 1 /\ cart.items[i].quantity = 2

\* C20: for both storage helpers, every key and every JSON-serializable
\* value v, a set(k, v) whose setItem succeeded followed by a get(k) whose
\* getItem succeeded returns v; a remove(k) whose removeItem succeeded
\* followed by such a get(k) returns the default, null when none is given;
\* and no get, set or remove throws, whether or not the localStorage call
\* under it failed.
C20_StorageRoundTrip ==
    [][/\ (/\ stLast.op = "set"
           /\ ~stLast.failed
           /\ stLast.value \in JsonSerializable
           /\ stLast'.op = "get"
           /\ stLast'.key = stLast.key
           /\ ~stLast'.failed)
             => stLast'.result = stLast.value
       /\ (/\ stLast.op = "remove"
           /\ ~stLast.failed
           /\ stLast'.op = "get"
           /\ stLast'.key = stLast.key
           /\ ~stLast'.failed)
             => /\ stLast'.result = DefaultOf(stLast'.default)
                /\ stLast'.default = NotGiven => stLast'.result = Null
       /\ stLast'.op \in {"get", "set", "remove"} => ~stLast'.threw
    ]_vars

\* C20 witness: a get has returned the object that a set stored under its
\* key, through the fallback helper, while the other key is absent.
C20_Witness ==
    /\ stLast.op = "get"
    /\ stLast.helper = "fallbackUtils.storage"
    /\ ~stLast.failed
    /\ stLast.result = "object"
    /\ localStorage[stLast.key] = JSONstringify("object")
    /\ \E k \in StKeys : localStorage[k] = Null

\* How often l occurs in the sequence s.
Count(s, l) == Cardinality({i \in DOMAIN s : s[i] = l})

\* The last dispatch ran its reducer and every listener call to the end.
DispatchCompleted ==
    /\ fbLast.action.type # "none"
    /\ fbLast.caught = "none"
    /\ ~fallbackReducer(fbLast.before, fbLast.action).threw

\* C22: a dispatch that runs to its end has replaced the state by the
\* reducer's result and has invoked exactly the listeners subscribed when it
\* began, in subscription order; a listener subscribed during the
\* notification is not invoked in it.
C22_NotifyInSubscriptionOrder ==
    DispatchCompleted => fbLast.log = fbLast.atStart

\* C23: a listener subscribed when the dispatch began is invoked in it even
\* when the callback of a listener before it has unsubscribed it.
C23_UnsubscribedStillInvoked ==
    (/\ DispatchCompleted
     /\ \E i, j \in DOMAIN fbLast.atStart :
           /\ i < j
           /\ fbLast.atStart[i] = "unsubPlain"
           /\ fbLast.atStart[j] = "plain")
        => Count(fbLast.log, "plain") = Count(fbLast.atStart, "plain")

\* C24: in a dispatch whose reducer call succeeds and whose listeners do not
\* throw, a listener that was subscribed at the start and that no callback
\* unsubscribes is invoked once for each of its subscriptions, also when a
\* listener before it unsubscribes itself or another listener.
C24_NoListenerSkipped ==
    DispatchCompleted =>
        \A l \in {"unsubPlain", "subPlain"} :
            Count(fbLast.log, l) = Count(fbLast.atStart, l)

\* The product with the given id.
ProductOfId(id) == CHOOSE p \in FbProducts : p.id = id

\* The trace holds add-item dispatches only, and at least one.
OnlyAdds(trace) ==
    /\ trace # <<>>
    /\ \A i \in DOMAIN trace :
          trace[i].op = "dispatch" /\ trace[i].arg = "ADD_TO_CART"

\* The cart slice of the host store after the add-item actions of the trace.
RECURSIVE HostCartAfter(_)
HostCartAfter(trace) ==
    IF trace = <<>> THEN initialState
    ELSE cartReducer(HostCartAfter(SubSeq(trace, 1, Len(trace) - 1)),
                     CartAction("ADD_TO_CART",
                                ProductOfId(trace[Len(trace)].id), 0, 0,
                                <<>>))

\* C27: after every sequence of ADD_TO_CART actions from the initial state
\* the cart slice of the fallback store equals the cart slice that
\* cartReducer gives the host store for the same actions.
C27_FallbackCartEqualsHostCart ==
    OnlyAdds(fbTrace) =>
        /\ "cart" \in fbState.slices
        /\ fbState.cart = HostCartAfter(fbTrace)

\* C28: every dispatch returns its action and does not throw; when the
\* reducer throws, the state and the listeners' invocation counts stay as
\* they were; when a listener throws, the state is the reducer's result and
\* the throwing listener is the last one invoked.
C28_DispatchNeverThrows ==
    [][(/\ Len(fbTrace') = Len(fbTrace) + 1
        /\ fbTrace'[Len(fbTrace')].op = "dispatch")
          => LET r == fallbackReducer(fbState, fbLast'.action)
             IN  /\ fbLast'.returned = fbLast'.action
                 /\ ~fbLast'.threw
                 /\ r.threw =>
                       /\ fbState' = fbState
                       /\ fbNotified' = fbNotified
                       /\ fbLast'.log = <<>>
                 /\ (~r.threw /\ "throws" \in
                        {fbLast'.log[i] : i \in DOMAIN fbLast'.log}) =>
                       /\ fbState' = r.state
                       /\ fbLast'.caught = "listener"
                       /\ fbLast'.log[Len(fbLast'.log)] = "throws"
                       /\ Count(fbLast'.log, "throws") = 1
                       /\ \A l \in Listeners :
                             fbNotified'[l] =
                                fbNotified[l] + Count(fbLast'.log, l)
    ]_vars

\* C28 witness: the second of three listeners threw; the first two were
\* invoked, the third was not, and the dispatch returned its action.
C28_Witness ==
    /\ fbLast.caught = "listener"
    /\ fbLast.atStart = <<"plain", "throws", "plain">>
    /\ fbLast.log = <<"plain", "throws">>
    /\ fbLast.returned = fbLast.action
    /\ ~fbLast.threw

\* The async bodies whose import() is pending.
Importing(seqs) == {s \in DOMAIN seqs : seqs[s].pc = "import"}

\* Every attempt of body q before the current one threw and was followed by
\* one full delay.
AttemptsInSequence(q) ==
    /\ q.delays = q.attempts - 1 \/ (q.pc = "delay" /\ q.delays = q.attempts)
    /\ q.waited = (q.attempts - 1) * DelayMs
    /\ \A j \in 1..(q.attempts - 1) : q.outcomes[j] = "throw"

\* C25: for 'host/store' and for 'host/utils' at most one async body is
\* running and at most one import() is pending at any time, whatever calls
\* are made and whenever; a further attempt is made only after all earlier
\* attempts of its body threw and each was followed by the delay; and an
\* import() is issued only when none of that name is pending.
C25_AttemptsNeverOverlap ==
    /\ [](/\ Cardinality(Running(storeSeqs)) <= 1
          /\ Cardinality(Running(utilsSeqs)) <= 1
          /\ Cardinality(Importing(storeSeqs)) <= 1
          /\ Cardinality(Importing(utilsSeqs)) <= 1
          /\ \A s \in DOMAIN storeSeqs : AttemptsInSequence(storeSeqs[s])
          /\ \A s \in DOMAIN utilsSeqs : AttemptsInSequence(utilsSeqs[s]))
    /\ [][/\ storeImports' # storeImports => Importing(storeSeqs) = {}
          /\ utilsImports' # utilsImports => Importing(utilsSeqs) = {}]_vars

\* C25 witness: three loadStore() calls were made while the one async body
\* went through two failed attempts and two delays; its third import() is
\* pending.
C25_Witness ==
    /\ Len(storeCalls) = 3
    /\ Len(storeSeqs) = 1
    /\ storeSeqs[1].pc = "import"
    /\ storeSeqs[1].attempts = 3
    /\ storeSeqs[1].waited = 2 * DelayMs
    /\ storeImports = 3

\* C26: storePromise (utilsPromise) is non-null exactly while an async body
\* of that loader is running, and then it is the promise of that body; it is
\* null after the body has concluded with the host value or with the
\* fallback; and a call that returned the in-flight promise was made while
\* its body was running.
C26_MarkerWhileRunning ==
    /\ storePromise # NoPromise <=> Running(storeSeqs) # {}
    /\ storePromise # NoPromise => Running(storeSeqs) = {storePromise}
    /\ utilsPromise # NoPromise <=> Running(utilsSeqs) # {}
    /\ utilsPromise # NoPromise => Running(utilsSeqs) = {utilsPromise}
    /\ \A k \in DOMAIN storeCalls :
          storeCalls[k].how = "join" =>
              storeCalls[k].promise \in storeCalls[k].inflight
    /\ \A k \in DOMAIN utilsCalls :
          utilsCalls[k].how = "join" =>
              utilsCalls[k].promise \in utilsCalls[k].inflight

\* C26 witness: the first body concluded with the fallback store and the
\* marker was cleared, so the next call started a second body, which is the
\* one the marker names now; the utils loader concluded with a host module.
C26_Witness ==
    /\ Len(storeSeqs) = 2
    /\ storeSeqs[1].pc = "done"
    /\ storeSeqs[1].usingFallback
    /\ storeSeqs[2].pc # "done"
    /\ storePromise = 2
    /\ Len(utilsSeqs) = 1
    /\ utilsSeqs[1].pc = "done"
    /\ ~utilsSeqs[1].usingFallback
    /\ utilsPromise = NoPromise

\* The invocations that the last top-level emit made itself, those of the
\* emits made from inside callbacks left out.
OwnInvocations(log) == SelectSeq(log, LAMBDA c : c.depth = 1)

\* The elements of an array of this.events that were registered with on.
RegisteredWithOn(list) == SelectSeq(list, LAMBDA c : c.wrapper = 0)

C29_OnceAtMostOnce ==
    /\ \A w \in DOMAIN emInvoked : emInvoked[w] <= 1
    /\ emLast.op = "emit" =>
          Len(OwnInvocations(emLast.log))
             = Len(emLast.before[emLast.event].list)

\* C30: in App, useSafeStore and useSafeUtils, the continuation of a load
\* that settles after the cleanup has run changes no state of the component,
\* and the continuation of a load that settles while the component is
\* mounted leaves isLoading false and a store or utils value that is not
\* null.
C30_NoUpdateAfterUnmount ==
    [][/\ (appPc = "awaiting" /\ appPc' = "done") =>
            IF appMounted
            THEN ~appIsLoading' /\ appStore' # Null
            ELSE UNCHANGED <<appStore, appIsLoading, appError>>
       /\ (hsPc = "awaiting" /\ hsPc' = "done") =>
            IF hsMounted
            THEN ~hsIsLoading' /\ hsStore' # Null
            ELSE UNCHANGED <<hsStore, hsIsLoading, hsError>>
       /\ (huPc = "awaiting" /\ huPc' = "done") =>
            IF huMounted
            THEN ~huIsLoading' /\ huUtils' # Null
            ELSE UNCHANGED <<huUtils, huIsLoading>>
    ]_vars

\* C30 witness: the load of useSafeStore settled after its cleanup and left
\* the hook loading with no store, while the load of useSafeUtils settled in
\* a mounted component and gave it the fallback bundle.
C30_Witness ==
    /\ hsPc = "done"
    /\ ~hsMounted
    /\ hsIsLoading
    /\ hsStore = Null
    /\ storeCalls[hsCall].status = "fulfilled"
    /\ huPc = "done"
    /\ huMounted
    /\ ~huIsLoading
    /\ huUtils = fallbackUtils

====
